---- MODULE Spec2Model ----
(***************************************************************************)
(* A model of app.py: the HuggingFaceOutlineGenerator class (topic         *)
(* classifier, response parser/validator, template generator) and the      *)
(* Streamlit main() script that drives it.                                 *)
(*                                                                         *)
(* Python strings are sequences of atoms.  An atom is either a word (a     *)
(* maximal run of \w characters), a separator (a maximal run of \W         *)
(* characters) or an opaque literal of the source.  The string a sequence  *)
(* stands for is the concatenation of its atoms.                           *)
(***************************************************************************)
EXTENDS Integers, Sequences, FiniteSets, TLC

VARIABLES
    envToken,       \* os.environ["HF_TOKEN"], "" when unset
    tokenInput,     \* the sidebar's token text_input
    topic,          \* the topic text_input
    keyword,        \* the keyword text_input
    ss_api_token,   \* st.session_state.api_token, None when absent
    generator,      \* the generator object: st.session_state.generator in
                    \* main (exists = FALSE: absent), the object called otherwise
    ss_outline,     \* st.session_state.outline, NoOutline when absent
    pc,             \* position of the running handler
    caller,         \* who called generate_outline: "main", "api" or "none"
    arg_topic,      \* generate_outline's topic argument
    arg_keyword,    \* generate_outline's keyword argument
    model_idx,      \* _find_working_model: index of the model under test
    all_404,        \* _find_working_model: local all_404
    attempt,        \* generate_outline: loop variable attempt
    response_text,  \* generate_outline: the last response_text, None if none
    log,            \* remote calls and sleeps of the running/last request
    msgs,           \* st.info/warning/error messages of that request
    ret_outline,    \* what the last generate_outline / pure call returned
    ret_exc,        \* the exception that call raised, "" if none
    ret_tag,        \* what the last detect_article_type call returned
    prev_tag,       \* what the call before it returned, on the same topic
    ret_text,       \* what the last format_outline_text call gave: in main,
                    \* the rendering of the script's last run
    seen,           \* history: the topic, keyword and text of the templates
                    \* formatted so far, in call order
    auth_failed     \* history: the token of the form's last request if its
                    \* last remote call was refused as unauthorized, else ""

vars == << envToken, tokenInput, topic, keyword, ss_api_token, generator,
           ss_outline, pc, caller, arg_topic, arg_keyword, model_idx,
           all_404, attempt, response_text, log, msgs, ret_outline, ret_exc,
           ret_tag, prev_tag, ret_text, seen, auth_failed >>

----------------------------------------------------------------------------
(* Bounds of the model *)

\* Longest enumerated topic, in atoms.
MaxTopicLen == 5

\* Longest enumerated list of CTAs.
MaxCtas == 3

\* Most template generations in one history.
MaxCalls == 3

----------------------------------------------------------------------------
(* Python strings *)

\* Word atoms the enumerated topics are built from.
VocabWords ==
    { "how", "to", "How", "guide", "guidebook", "best", "10", "explain" }

\* Separator atoms: one space, two spaces, a colon.
Seps == { " ", "  ", ":" }

Whitespace == { " ", "  " }

Digits == { "10" }

IsSep(a) == a \in Seps

\* str.lower() of one atom.
LowerAtom(a) ==
    CASE a = "How" -> "how"
      [] OTHER -> a

\* str.lower()
Lower(s) == [i \in 1..Len(s) |-> LowerAtom(s[i])]

\* str.title() of one atom: first letter upper, the rest lower.
TitleAtom(a) ==
    CASE LowerAtom(a) = "how" -> "How"
      [] LowerAtom(a) = "to" -> "To"
      [] LowerAtom(a) = "guide" -> "Guide"
      [] LowerAtom(a) = "guidebook" -> "Guidebook"
      [] LowerAtom(a) = "best" -> "Best"
      [] LowerAtom(a) = "what" -> "What"
      [] LowerAtom(a) = "is" -> "Is"
      [] LowerAtom(a) = "explain" -> "Explain"
      [] LowerAtom(a) = "garden" -> "Garden"
      [] LowerAtom(a) = "bake" -> "Bake"
      [] LowerAtom(a) = "bread" -> "Bread"
      [] LowerAtom(a) = "laptops" -> "Laptops"
      [] LowerAtom(a) = "entropy" -> "Entropy"
      [] LowerAtom(a) = "my" -> "My"
      [] LowerAtom(a) = "seo" -> "Seo"
      [] OTHER -> a

\* str.title()
Title(s) == [i \in 1..Len(s) |-> TitleAtom(s[i])]

RECURSIVE LStrip(_)
\* str.lstrip()
LStrip(s) ==
    IF s # << >> /\ Head(s) \in Whitespace THEN LStrip(Tail(s)) ELSE s

RECURSIVE RStrip(_)
\* str.rstrip()
RStrip(s) ==
    IF s # << >> /\ s[Len(s)] \in Whitespace
    THEN RStrip(SubSeq(s, 1, Len(s) - 1))
    ELSE s

\* str.strip()
Strip(s) == RStrip(LStrip(s))

\* Whether the atoms of pat occur in s from position i on.
MatchAt(s, i, pat) ==
    /\ i + Len(pat) - 1 <= Len(s)
    /\ \A j \in 1..Len(pat) : s[i + j - 1] = pat[j]

RECURSIVE Replace(_, _)
\* str.replace(pat, ''): every occurrence, left to right.
Replace(s, pat) ==
    IF s = << >> THEN << >>
    ELSE IF MatchAt(s, 1, pat)
         THEN Replace(SubSeq(s, Len(pat) + 1, Len(s)), pat)
         ELSE << Head(s) >> \o Replace(Tail(s), pat)

RECURSIVE SplitColonFirst(_)
\* str.split(':')[0]: the text before the first colon.  A literal atom that
\* starts with a colon cuts the string there as the separator ":" does.
SplitColonFirst(s) ==
    IF s = << >> THEN << >>
    ELSE IF Head(s) \in { ":", ": Complete Step-by-Step Guide",
                          ": Expert Comparison and Review",
                          ": A Comprehensive Explanation",
                          ": Essential Information and Insights", ": " }
         THEN << >>
         ELSE << Head(s) >> \o SplitColonFirst(Tail(s))

----------------------------------------------------------------------------
(* detect_article_type *)

Tags == { "how_to", "listicle", "explanatory", "general" }

\* The alternatives of r'\b(how to|guide|tutorial|step by step)\b'.
HowToPhrases ==
    { << "how", " ", "to" >>, << "guide" >>, << "tutorial" >>,
      << "step", " ", "by", " ", "step" >> }

\* The words of r'\b(\d+\s+)?(best|top|vs|versus|comparison)\b'.
ListicleWords == { << "best" >>, << "top" >>, << "vs" >>, << "versus" >>,
                   << "comparison" >> }

\* The alternatives of r'\b(what is|introduction to|understanding|explain)\b'.
ExplanatoryPhrases ==
    { << "what", " ", "is" >>, << "introduction", " ", "to" >>,
      << "understanding" >>, << "explain" >> }

\* A \b before position i and after position j of s: the atoms there are
\* words and their neighbours are not.
WordBounded(s, i, j) ==
    /\ ~IsSep(s[i])
    /\ ~IsSep(s[j])
    /\ (i > 1 => IsSep(s[i - 1]))
    /\ (j < Len(s) => IsSep(s[j + 1]))

\* re.search(r'\b(p1|p2|...)\b', s) finds a match.
SearchPhrases(s, phrases) ==
    \E i \in 1..Len(s) : \E p \in phrases :
        /\ MatchAt(s, i, p)
        /\ WordBounded(s, i, i + Len(p) - 1)

\* re.search(r'\b(\d+\s+)?(w1|w2|...)\b', s) finds a match.
SearchNumbered(s, words) ==
    \E i \in 1..Len(s) : \E w \in words :
        \/ /\ MatchAt(s, i, w)
           /\ WordBounded(s, i, i + Len(w) - 1)
        \/ /\ i + 2 <= Len(s)
           /\ s[i] \in Digits
           /\ s[i + 1] \in Whitespace
           /\ MatchAt(s, i + 2, w)
           /\ WordBounded(s, i, i + 1 + Len(w))

\* detect_article_type without its final else branch: a topic that matches
\* nothing falls off the end of the function.
detect_article_type_no_else(t) ==
    LET topic_lower == Lower(t) IN
    IF SearchPhrases(topic_lower, HowToPhrases) THEN "how_to"
    ELSE IF SearchNumbered(topic_lower, ListicleWords) THEN "listicle"
    ELSE IF SearchPhrases(topic_lower, ExplanatoryPhrases) THEN "explanatory"
    ELSE "NoneType"

\* detect_article_type with the listicle test moved before the how-to test.
detect_article_type_listicle_first(t) ==
    LET topic_lower == Lower(t) IN
    IF SearchNumbered(topic_lower, ListicleWords) THEN "listicle"
    ELSE IF SearchPhrases(topic_lower, HowToPhrases) THEN "how_to"
    ELSE IF SearchPhrases(topic_lower, ExplanatoryPhrases) THEN "explanatory"
    ELSE "general"

detect_article_type(t) ==
    LET topic_lower == Lower(t) IN
    IF SearchPhrases(topic_lower, HowToPhrases) THEN "how_to"
    ELSE IF SearchNumbered(topic_lower, ListicleWords) THEN "listicle"
    ELSE IF SearchPhrases(topic_lower, ExplanatoryPhrases) THEN "explanatory"
    ELSE "general"

----------------------------------------------------------------------------
(* Python values: a tag and a payload.  A dict's payload is a function    *)
(* from its keys, a list's a sequence, a str's its atoms.                  *)

PyStr(atoms) == [t |-> "str", v |-> atoms]
PyInt(n) == [t |-> "int", v |-> n]
PyList(items) == [t |-> "list", v |-> items]
PyDict(fields) == [t |-> "dict", v |-> fields]
PyNone == [t |-> "none", v |-> 0]

\* A str made of one literal of the source.
Lit(text) == PyStr(<< text >>)

\* st.session_state has no outline / no call has returned one.
NoOutline == PyNone

\* a == b in Python, for the values compared in this program.
PyEq(a, b) == a.t = b.t /\ a.v = b.v

\* One section dict of a template.
Section(h2, b1, b2, b3) ==
    PyDict([h2 |-> Lit(h2), bullets |-> PyList(<< Lit(b1), Lit(b2), Lit(b3) >>)])

\* One CTA dict.
Cta(after, text) == PyDict([after |-> PyInt(after), text |-> PyStr(text)])

----------------------------------------------------------------------------
(* _validate_outline *)

\* x in container, for a str x: "True", "False" or "TypeError".
PyIn(x, c) ==
    CASE c.t = "dict" -> IF x \in DOMAIN c.v THEN "True" ELSE "False"
      [] c.t = "str" ->
            IF \E i \in 1..Len(c.v) : c.v[i] = x THEN "True" ELSE "False"
      [] c.t = "list" ->
            IF \E i \in 1..Len(c.v) : PyEq(c.v[i], Lit(x))
            THEN "True" ELSE "False"
      [] OTHER -> "TypeError"

\* The body of the loop over outline['sections'], for one section:
\* "False" (return False), "TypeError" (raises) or "next" (loop goes on).
ValidateSection(section) ==
    LET has_h2 == PyIn("h2", section)
        has_bullets == PyIn("bullets", section)
    IN  IF has_h2 = "TypeError" THEN "TypeError"
        ELSE IF has_h2 = "False" THEN "False"
        ELSE IF has_bullets = "TypeError" THEN "TypeError"
        ELSE IF has_bullets = "False" THEN "False"
        ELSE IF section.t # "dict" THEN "TypeError"
        ELSE IF section.v.bullets.t # "list" \/ Len(section.v.bullets.v) < 2
             THEN "False"
        ELSE "next"

RECURSIVE ValidateSections(_, _)
\* The loop over outline['sections'] from index i on.
ValidateSections(sections, i) ==
    IF i > Len(sections) THEN "True"
    ELSE LET r == ValidateSection(sections[i]) IN
         IF r = "next" THEN ValidateSections(sections, i + 1) ELSE r

\* _validate_outline(outline) for a dict: "True", "False" or "TypeError".
_validate_outline(outline) ==
    IF ~({ "h1", "sections", "ctas" } \subseteq DOMAIN outline.v) THEN "False"
    ELSE IF outline.v.sections.t # "list" \/ Len(outline.v.sections.v) < 3
         THEN "False"
    ELSE ValidateSections(outline.v.sections.v, 1)

----------------------------------------------------------------------------
(* _generate_template_based *)

\* templates['how_to']
TemplateHowTo(t) ==
    [h1 |-> PyStr(<< "How to " >>
                  \o Title(Strip(Replace(t, << "how", " ", "to" >>)))
                  \o << ": Complete Step-by-Step Guide" >>),
     sections |-> PyList(<<
        Section("Getting Started: Prerequisites and Preparation",
                "Understanding the basic requirements and tools needed",
                "Setting up your environment for success",
                "Common mistakes to avoid before starting"),
        Section("Step-by-Step Implementation Process",
                "Following the proven methodology step by step",
                "Best practices and expert tips for each phase",
                "Troubleshooting common issues as you progress"),
        Section("Advanced Techniques and Optimization",
                "Taking your results to the next level",
                "Professional strategies used by experts",
                "Measuring and improving your outcomes"),
        Section("Maintaining Long-Term Success",
                "Ongoing maintenance and continuous improvement",
                "Scaling your approach as you grow",
                "Resources for continued learning and support") >>)]

\* templates['listicle']
TemplateListicle(t) ==
    [h1 |-> PyStr(<< "Top Picks for " >> \o Title(t)
                  \o << ": Expert Comparison and Review" >>),
     sections |-> PyList(<<
        Section("Selection Criteria: What Makes the Best Choice",
                "Key factors to consider when evaluating options",
                "Understanding your specific needs and priorities",
                "Quality indicators and red flags to watch for"),
        Section("Top-Rated Options: Detailed Comparison",
                "In-depth analysis of leading choices",
                "Pros and cons of each option",
                "Real-world performance and user experiences"),
        Section("Value Analysis: Finding the Best Deal",
                "Price comparison and value for money assessment",
                "Hidden costs and long-term investment considerations",
                "Best options for different budgets"),
        Section("Making Your Decision: Final Recommendations",
                "Best overall choice for most users",
                "Alternative recommendations for specific use cases",
                "Where to buy and what to watch out for") >>)]

\* templates['explanatory']
TemplateExplanatory(t) ==
    [h1 |-> PyStr(<< "Understanding " >> \o Title(t)
                  \o << ": A Comprehensive Explanation" >>),
     sections |-> PyList(<<
        Section("The Fundamentals: Core Concepts Explained",
                "Breaking down the basic principles in simple terms",
                "Key terminology and definitions you need to know",
                "Historical context and why it matters today"),
        Section("How It Works: The Mechanics Behind the Concept",
                "Step-by-step explanation of the process",
                "Real-world examples that illustrate the concept",
                "Common misconceptions and clarifications"),
        Section("Practical Applications and Use Cases",
                "Where and when this concept applies in real life",
                "Benefits and advantages of understanding it",
                "Common scenarios where this knowledge is useful"),
        Section("Going Deeper: Advanced Insights",
                "More complex aspects for those ready to learn more",
                "Related concepts and further areas of study",
                "Resources for continued learning and exploration") >>)]

\* templates['general']
TemplateGeneral(t) ==
    [h1 |-> PyStr(Title(t) \o << ": Essential Information and Insights" >>),
     sections |-> PyList(<<
        PyDict([h2 |-> Lit("Introduction and Overview"),
                bullets |-> PyList(<<
                    PyStr(<< "Understanding the basics of " >> \o t),
                    Lit("Why this topic is relevant and important"),
                    Lit("What you'll learn in this comprehensive guide") >>)]),
        Section("Key Components and Elements",
                "Breaking down the main aspects and features",
                "How different elements work together",
                "Critical factors that influence outcomes"),
        Section("Practical Implementation and Best Practices",
                "Proven strategies and approaches that work",
                "Common pitfalls and how to avoid them",
                "Expert tips for optimal results"),
        Section("Looking Forward: Trends and Future Outlook",
                "Emerging trends and developments to watch",
                "Preparing for future changes and opportunities",
                "Next steps and continued resources") >>)]

\* templates.get(article_type, templates['general'])
TemplateFor(article_type, t) ==
    CASE article_type = "how_to" -> TemplateHowTo(t)
      [] article_type = "listicle" -> TemplateListicle(t)
      [] article_type = "explanatory" -> TemplateExplanatory(t)
      [] OTHER -> TemplateGeneral(t)

\* template['ctas'] = [...]
TemplateCtas(t) ==
    PyList(<<
        Cta(0, << "Want to master " >> \o t
               \o << "? Continue reading for expert insights." >>),
        Cta(1, << "Ready to take action? Apply these proven strategies today." >>),
        Cta(3, << "Start implementing these tips now to see real results!" >>) >>)

\* _generate_template_based without the assignment of template['ctas'].
_generate_template_based_no_ctas(t, k) ==
    LET template == TemplateFor(detect_article_type(t), t) IN
    PyDict([h1 |-> template.h1, sections |-> template.sections])

\* _generate_template_based keeping the last keyword it was given for the
\* calls that give none.
_generate_template_based_sticky_keyword(t, k) ==
    LET article_type == detect_article_type(t)
        template == TemplateFor(article_type, t)
        kw == IF k # << >> THEN k ELSE keyword
        h1 == IF kw # << >>
              THEN PyStr(SplitColonFirst(template.h1.v) \o << ": " >>
                         \o Title(kw) \o << " Edition" >>)
              ELSE template.h1
    IN  PyDict([h1 |-> h1, sections |-> template.sections,
                ctas |-> TemplateCtas(t)])

_generate_template_based(t, k) ==
    LET article_type == detect_article_type(t)
        template == TemplateFor(article_type, t)
        h1 == IF k # << >>
              THEN PyStr(SplitColonFirst(template.h1.v) \o << ": " >>
                         \o Title(k) \o << " Edition" >>)
              ELSE template.h1
    IN  PyDict([h1 |-> h1, sections |-> template.sections,
                ctas |-> TemplateCtas(t)])

----------------------------------------------------------------------------
(* Response texts.  A response is a Python string whose atoms are words,  *)
(* separators, "\n", the braces "{" and "}", and document atoms: a        *)
(* document atom stands for the compact serialisation "{...}" of one JSON  *)
(* object, named below.                                                    *)

ExampleSection(h2) ==
    PyDict([h2 |-> Lit(h2),
            bullets |-> PyList(<< Lit("Detailed point 1"),
                                  Lit("Detailed point 2"),
                                  Lit("Detailed point 3") >>)])

ShortSection(h2) ==
    PyDict([h2 |-> Lit(h2),
            bullets |-> PyList(<< Lit("Point 1"), Lit("Point 2") >>)])

ExampleCtas ==
    PyList(<< Cta(0, << "Relevant CTA after first heading" >>),
              Cta(1, << "Relevant CTA after second heading" >>),
              Cta(3, << "Final CTA after last heading" >>) >>)

\* json.loads of the text a document atom stands for.
Doc(a) ==
    CASE a = "{valid4}" ->
            PyDict([h1 |-> Lit("Your SEO-optimized main heading here"),
                    sections |-> PyList(<< ExampleSection("First heading"),
                                           ExampleSection("Second heading"),
                                           ExampleSection("Third heading"),
                                           ExampleSection("Fourth heading") >>),
                    ctas |-> ExampleCtas])
      [] a = "{valid3}" ->
            PyDict([h1 |-> Lit("A minimal heading"),
                    sections |-> PyList(<< ShortSection("First heading"),
                                           ShortSection("Second heading"),
                                           ShortSection("Third heading") >>),
                    ctas |-> PyList(<< >>)])
      [] a = "{ctas_null}" ->
            PyDict([h1 |-> Lit("No calls to action"),
                    sections |-> PyList(<< ShortSection("First heading"),
                                           ShortSection("Second heading"),
                                           ShortSection("Third heading") >>),
                    ctas |-> PyNone])
      [] a = "{two_sections}" ->
            PyDict([h1 |-> Lit("Only two"),
                    sections |-> PyList(<< ExampleSection("First heading"),
                                           ExampleSection("Second heading") >>),
                    ctas |-> ExampleCtas])
      [] a = "{no_ctas}" ->
            PyDict([h1 |-> Lit("No ctas key"),
                    sections |-> PyList(<< ExampleSection("First heading"),
                                           ExampleSection("Second heading"),
                                           ExampleSection("Third heading") >>)])
      [] a = "{one_bullet}" ->
            PyDict([h1 |-> Lit("One bullet"),
                    sections |-> PyList(<<
                        ExampleSection("First heading"),
                        PyDict([h2 |-> Lit("Second heading"),
                                bullets |-> PyList(<< Lit("Point 1") >>)]),
                        ExampleSection("Third heading") >>),
                    ctas |-> ExampleCtas])
      [] a = "{sections_str}" ->
            PyDict([h1 |-> Lit("Not a list"),
                    sections |-> Lit("First, Second, Third"),
                    ctas |-> ExampleCtas])
      [] a = "{int_sections}" ->
            PyDict([h1 |-> Lit("Numbers"),
                    sections |-> PyList(<< PyInt(1), PyInt(2), PyInt(3) >>),
                    ctas |-> ExampleCtas])
      [] a = "{str_sections}" ->
            PyDict([h1 |-> Lit("Strings"),
                    sections |-> PyList(<< PyStr(<< "h2", " ", "bullets" >>),
                                           PyStr(<< "h2", " ", "bullets" >>),
                                           PyStr(<< "h2", " ", "bullets" >>) >>),
                    ctas |-> ExampleCtas])

DocAtoms ==
    { "{valid4}", "{valid3}", "{two_sections}", "{no_ctas}", "{one_bullet}",
      "{sections_str}", "{int_sections}", "{str_sections}", "{ctas_null}" }

\* The atom's text contains '{' / '}'.
HasOpenBrace(a) == a = "{" \/ a \in DocAtoms
HasCloseBrace(a) == a = "}" \/ a \in DocAtoms

\* re.search(r'\{[\s\S]*\}', text).group(0): from the first '{' to the last
\* '}' after it; << >> when there is no match.
JsonMatch(text) ==
    LET opens == { i \in 1..Len(text) : HasOpenBrace(text[i]) }
        closes == { j \in 1..Len(text) : HasCloseBrace(text[j]) }
    IN  IF opens = {} THEN << >>
        ELSE LET first == CHOOSE i \in opens : \A k \in opens : i <= k
                 after == { j \in closes :
                              j > first \/ (j = first /\ text[j] \in DocAtoms) }
             IN  IF after = {} THEN << >>
                 ELSE LET last == CHOOSE j \in after : \A k \in after : k <= j
                      IN  SubSeq(text, first, last)

\* json.loads(json_str) for a json_str that starts with '{' and ends with
\* '}': the decoded dict, or PyNone for a JSONDecodeError.
JsonLoads(json_str) ==
    IF Len(json_str) = 1 /\ json_str[1] \in DocAtoms THEN Doc(json_str[1])
    ELSE IF /\ Len(json_str) >= 2
            /\ json_str[1] = "{"
            /\ json_str[Len(json_str)] = "}"
            /\ \A i \in 2..(Len(json_str) - 1) :
                    json_str[i] \in Whitespace \cup { "\n" }
         THEN PyDict(<< >>)
    ELSE PyNone

----------------------------------------------------------------------------
(* _create_structured_outline_from_text *)

\* len() of one atom of a response text.
AtomLen(a) ==
    CASE a \in { " ", "-", "{", "}", "\n" } -> 1
      [] a \in { "  ", "##", "**" } -> 2
      [] a \in { "one", "two" } -> 3
      [] a \in { "Step", "four", "five" } -> 4
      [] a \in { "short", "three" } -> 5
      [] a = "Overview" -> 8
      [] a = "Hope this helps" -> 15
      [] a = "Here is your outline" -> 20
      [] a = "a detailed point about it" -> 25
      [] OTHER -> 40

RECURSIVE StrLen(_)
\* len(s)
StrLen(s) == IF s = << >> THEN 0 ELSE AtomLen(Head(s)) + StrLen(Tail(s))

RECURSIVE SplitLines(_, _)
\* text.split('\n'), cur being the line read so far.
SplitLines(text, cur) ==
    IF text = << >> THEN << cur >>
    ELSE IF Head(text) = "\n" THEN << cur >> \o SplitLines(Tail(text), << >>)
    ELSE SplitLines(Tail(text), Append(cur, Head(text)))

\* [line.strip() for line in text.split('\n') if line.strip()]
StrippedLines(text) ==
    LET raw == SplitLines(text, << >>)
        stripped == [i \in 1..Len(raw) |-> Strip(raw[i])]
    IN  SelectSeq(stripped, LAMBDA l : l # << >>)

\* any(marker in line.lower() for marker in
\*     ['section', 'step', '##', 'h2:', '**'])
\* A document atom holds the key "sections".
ContainsMarker(line) ==
    \E i \in 1..Len(line) :
        \/ line[i] \in { "Step", "step", "Section", "section", "##", "h2:", "**" }
        \/ line[i] \in DocAtoms

RECURSIVE LStripChars(_, _)
\* str.lstrip(chars), chars given as the atoms made of those characters only.
LStripChars(s, chars) ==
    IF s # << >> /\ Head(s) \in chars THEN LStripChars(Tail(s), chars) ELSE s

RECURSIVE RStripChars(_, _)
\* str.rstrip(chars)
RStripChars(s, chars) ==
    IF s # << >> /\ s[Len(s)] \in chars
    THEN RStripChars(SubSeq(s, 1, Len(s) - 1), chars)
    ELSE s

\* str.strip(chars)
StripChars(s, chars) == RStripChars(LStripChars(s, chars), chars)

\* The atoms made only of the characters of '#*: '.
HeadingStrip == { "##", "**", ":", " ", "  " }

\* The atoms made only of the characters of '•-*: '.
BulletStrip == { "-", "**", ":", " ", "  " }

\* current_section = None
NoSection == [some |-> FALSE, h2 |-> << >>, bullets |-> << >>]

\* sections.append(current_section) when it has a bullet.
Flush(sections, current) ==
    IF current.some /\ Len(current.bullets) > 0
    THEN Append(sections, current)
    ELSE sections

RECURSIVE ScanLines(_, _, _, _)
\* The loop over lines from index i on, and the append after it: the final
\* list of sections.
ScanLines(lines, i, sections, current) ==
    IF i > Len(lines) THEN Flush(sections, current)
    ELSE LET line == lines[i] IN
         IF ContainsMarker(line)
         THEN ScanLines(lines, i + 1, Flush(sections, current),
                        [some |-> TRUE, h2 |-> StripChars(line, HeadingStrip),
                         bullets |-> << >>])
         ELSE IF current.some /\ ~HasOpenBrace(line[1]) /\ line[1] # "}"
         THEN LET clean_line == StripChars(line, BulletStrip) IN
              IF StrLen(clean_line) > 10
              THEN ScanLines(lines, i + 1, sections,
                             [current EXCEPT !.bullets = Append(@, clean_line)])
              ELSE ScanLines(lines, i + 1, sections, current)
         ELSE ScanLines(lines, i + 1, sections, current)

RECURSIVE PadBullets(_, _)
\* while len(section['bullets']) < 3: section['bullets'].append(...)
PadBullets(bullets, h2) ==
    IF Len(bullets) < 3
    THEN PadBullets(Append(bullets,
                           << "Additional details about " >> \o Lower(h2)), h2)
    ELSE bullets

\* One scanned section as the dict the function returns.
SectionDict(sec) ==
    LET padded == PadBullets(sec.bullets, sec.h2) IN
    PyDict([h2 |-> PyStr(sec.h2),
            bullets |-> PyList([i \in 1..Len(padded) |-> PyStr(padded[i])])])

_create_structured_outline_from_text(text, t, k) ==
    LET scanned == ScanLines(StrippedLines(text), 1, << >>, NoSection) IN
    IF Len(scanned) < 3 THEN _generate_template_based(t, k)
    ELSE LET h1 == IF k # << >>
                   THEN Title(t) \o << ": " >> \o Title(k)
                   ELSE << "Complete Guide to " >> \o Title(t)
             kept == SubSeq(scanned, 1, IF Len(scanned) < 4 THEN Len(scanned) ELSE 4)
             sections == [i \in 1..Len(kept) |-> SectionDict(kept[i])]
         IN  PyDict([h1 |-> PyStr(h1),
                     sections |-> PyList(sections),
                     ctas |-> PyList(<<
                        Cta(0, << "Ready to get started? Learn more about implementing these strategies." >>),
                        Cta(1, << "Want expert guidance? Check out our comprehensive resources." >>),
                        Cta(Len(kept) - 1, << "Start applying these tips today for best results!" >>) >>)])

----------------------------------------------------------------------------
(* _parse_response *)

\* What a call gives back: a returned value, or a raised exception.
Returned(value) == [raised |-> "", value |-> value]
Raised(exc) == [raised |-> exc, value |-> PyNone]

\* _parse_response without the call of _validate_outline: whatever decodes
\* is returned.
_parse_response_unvalidated(text, t, k) ==
    LET json_str == JsonMatch(text)
        outline == JsonLoads(json_str)
    IN  IF json_str = << >> \/ outline.t = "none"
        THEN Returned(_create_structured_outline_from_text(text, t, k))
        ELSE Returned(outline)

_parse_response(text, t, k) ==
    LET json_str == JsonMatch(text)
        outline == JsonLoads(json_str)
        valid == _validate_outline(outline)
    IN  IF json_str = << >>
        THEN Returned(_create_structured_outline_from_text(text, t, k))
        ELSE IF outline.t = "none"
        THEN Returned(_create_structured_outline_from_text(text, t, k))
        ELSE IF valid = "TypeError" THEN Raised("TypeError")
        ELSE IF valid = "True" THEN Returned(outline)
        ELSE Returned(_create_structured_outline_from_text(text, t, k))

----------------------------------------------------------------------------
(* format_outline_text.  The text it builds is kept as its sequence of    *)
(* lines: each line is what an f-string wrote before its '\n' (its kind    *)
(* is the literal prefix, its value the formatted field), and a blank line *)
(* is the second '\n' of a "\n\n" or a lone "\n".                          *)

\* f"# {v}\n", f"## {v}\n", f"• {v}\n", f"💡 **Call to Action:** {v}\n"
Line(kind, value) == [line |-> kind, v |-> value]
BlankLine == [line |-> "blank", v |-> PyNone]

\* What format_outline_text gives back: the text, or the exception raised.
Formatted(text) == [raised |-> "", value |-> text]
FormatRaised(exc) == [raised |-> exc, value |-> << >>]

RECURSIVE ScanCtas(_, _, _)
\* next((c for c in items if c['after'] == idx), None) from item j on: the
\* generator stops at the first match, and raises where c['after'] raises.
ScanCtas(items, j, idx) ==
    IF j > Len(items) THEN Returned(PyNone)
    ELSE LET c == items[j] IN
         IF c.t # "dict" THEN Raised("TypeError")
         ELSE IF "after" \notin DOMAIN c.v THEN Raised("KeyError")
         ELSE IF PyEq(c.v.after, PyInt(idx)) THEN Returned(c)
         ELSE ScanCtas(items, j + 1, idx)

\* Lines 486-487: one line per bullet.
BulletLines(bullets) == [i \in 1..Len(bullets) |-> Line("bullet", bullets[i])]

RECURSIVE ScanCtasLast(_, _, _, _)
\* The lookup keeping the last match, not stopping at the first.
ScanCtasLast(items, j, idx, found) ==
    IF j > Len(items) THEN Returned(found)
    ELSE LET c == items[j] IN
         IF c.t # "dict" THEN Raised("TypeError")
         ELSE IF "after" \notin DOMAIN c.v THEN Raised("KeyError")
         ELSE ScanCtasLast(items, j + 1, idx,
                           IF PyEq(c.v.after, PyInt(idx)) THEN c ELSE found)

\* The lookup of line 490 giving the last CTA of a section.
FindCta_last(ctas, idx) ==
    IF ctas.t = "list" THEN ScanCtasLast(ctas.v, 1, idx, PyNone)
    ELSE Raised("TypeError")

\* The lookup of line 490 counting the sections from one.
FindCta_one_based(ctas, idx) ==
    IF ctas.t = "list" THEN ScanCtas(ctas.v, 1, idx + 1)
    ELSE Raised("TypeError")

\* Line 490 (and 697): the lookup over outline['ctas'].  Iterating a str
\* gives its characters and iterating a dict its keys, all of them strs;
\* None and numbers cannot be iterated.
FindCta(ctas, idx) ==
    CASE ctas.t = "list" -> ScanCtas(ctas.v, 1, idx)
      [] ctas.t = "str" ->
            IF ctas.v = << >> THEN Returned(PyNone) ELSE Raised("TypeError")
      [] ctas.t = "dict" ->
            IF DOMAIN ctas.v = { } THEN Returned(PyNone) ELSE Raised("TypeError")
      [] OTHER -> Raised("TypeError")

RECURSIVE FormatSections(_, _, _, _)
\* Lines 484-492: the loop over enumerate(outline['sections']) from the
\* section at position i (index i - 1) on, text being what is built so far.
FormatSections(sections, ctas, i, text) ==
    IF i > Len(sections) THEN Formatted(text)
    ELSE LET section == sections[i] IN
         IF section.t # "dict" THEN FormatRaised("TypeError")
         ELSE IF "h2" \notin DOMAIN section.v THEN FormatRaised("KeyError")
         ELSE IF "bullets" \notin DOMAIN section.v THEN FormatRaised("KeyError")
         ELSE IF section.v.bullets.t # "list" THEN FormatRaised("TypeError")
         ELSE
         LET body == << Line("h2", section.v.h2), BlankLine >>
                         \o BulletLines(section.v.bullets.v)
                         \o << BlankLine >>
             cta == FindCta(ctas, i - 1)
         IN  IF cta.raised # "" THEN FormatRaised(cta.raised)
             ELSE IF cta.value.t = "none"
             THEN FormatSections(sections, ctas, i + 1, text \o body)
             ELSE IF "text" \notin DOMAIN cta.value.v
             THEN FormatRaised("KeyError")
             ELSE FormatSections(sections, ctas, i + 1,
                      text \o body
                           \o << Line("cta", cta.value.v.text), BlankLine >>)

\* format_outline_text(outline) for a dict with the keys h1, sections and
\* ctas and a list of sections.
format_outline_text(outline) ==
    FormatSections(outline.v.sections.v, outline.v.ctas, 1,
                   << Line("h1", outline.v.h1), BlankLine >>)

\* Nothing is rendered: st.session_state has no outline.
NotRendered == Formatted(<< >>)

\* Lines 661-702 of main: the download text is built (line 670), then the
\* loop of lines 689-702 shows the outline with the same lookups, so it
\* raises nothing the call of line 670 did not raise before it.
Render(outline) ==
    IF outline = NoOutline THEN NotRendered ELSE format_outline_text(outline)

----------------------------------------------------------------------------
(* The generator object and the remote service *)

\* HuggingFaceOutlineGenerator.MODELS
MODELS ==
    << "google/flan-t5-base", "google/flan-t5-large",
       "tiiuae/falcon-7b-instruct", "HuggingFaceH4/zephyr-7b-beta" >>

\* A loop of three attempts.
max_retries_three == 2 + 1

\* max_retries = 2
max_retries == 2

\* Tokens the user may type; "" is an empty field / an unset variable.
UserTokens == { "hf_A", "hf_B" }
EnvTokens == { "hf_env" }

\* st.session_state has no api_token.
Absent == "<absent>"

\* No generator object yet.
NoGenerator ==
    [exists |-> FALSE, api_token |-> "", model_name |-> "", client |-> "",
     working_model_found |-> FALSE]

\* __init__(api_token): client is the token the InferenceClient holds,
\* "" for None.
NewGenerator(api_token) ==
    [exists |-> TRUE,
     api_token |-> IF api_token # "" THEN api_token ELSE envToken,
     model_name |-> "", client |-> "", working_model_found |-> FALSE]

\* str(e).lower() of a remote error, as the set of the substrings the code
\* tests for that it contains.
ErrorMsgs ==
    { { "429", "rate limit" },
      { "401", "unauthorized" },
      { "invalid token", "token" },
      { "404", "not found" },
      { "token" },
      { } }

\* str(e).lower() of the TypeError _validate_outline raises.
TypeErrorMsg == { }

\* The topics the user may type into the form.
AppTopics == { << >>, << " " >>, << "how", " ", "to", " ", "bake" >> }

\* The keywords the user may type: none, or one.
Keywords == { << >>, << "seo" >> }

\* Markdown lines of a response.
HeadingLine(n) == << "##", " ", "Step", " ", n >>
BulletLine == << "-", " ", "a detailed point about it" >>
ShortLine == << "-", " ", "short" >>
NL == << "\n" >>

\* Three headings with one bullet each.
Markdown3 ==
    HeadingLine("one") \o NL \o BulletLine \o NL \o
    HeadingLine("two") \o NL \o BulletLine \o NL \o
    HeadingLine("three") \o NL \o BulletLine \o NL \o ShortLine

\* The response texts a successful remote call may return.
ResponseTexts ==
    { << "{valid4}" >>,
      << "Here is your outline", "\n", "{valid4}", "\n", "Hope this helps" >>,
      << "{valid3}" >>,
      << "{two_sections}" >>,
      << "{no_ctas}" >>,
      << "{one_bullet}" >>,
      << "{sections_str}" >>,
      << "{int_sections}" >>,
      << "{str_sections}" >>,
      << >>,
      << "Here is your outline" >>,
      << "{", "Here is your outline", "}" >>,
      << "{", " ", "}" >>,
      << "{ctas_null}" >>,
      << "Here is your outline", "\n", "{valid4}", "\n",
         "Hope this helps", " ", "}" >>,
      Markdown3,
      HeadingLine("one") \o NL \o BulletLine \o NL \o
          HeadingLine("two") \o NL \o BulletLine,
      Markdown3 \o NL \o HeadingLine("four") \o NL \o BulletLine \o NL \o
          HeadingLine("five") \o NL \o BulletLine,
      << "{two_sections}", "\n" >> \o Markdown3 }

\* What a remote error is, whatever the code takes it for: the service's
\* 429, 401 and 404 answers carry these words.
ErrorKind(e) ==
    IF "429" \in e \/ "rate limit" \in e THEN "rate_limit"
    ELSE IF "401" \in e \/ "unauthorized" \in e \/ "invalid token" \in e
    THEN "auth"
    ELSE IF "404" \in e \/ "not found" \in e THEN "not_found"
    ELSE "other"

\* One remote call, as the log keeps it: what it was for, the model and the
\* token it went out with, and how it ended ("ok" or the error's kind).
RemoteCall(purpose, model, token, outcome) ==
    [op |-> "text_generation", purpose |-> purpose, model |-> model,
     token |-> token, outcome |-> outcome]

\* time.sleep(5)
SleepCall ==
    [op |-> "sleep", purpose |-> "backoff", model |-> "", token |-> "",
     outcome |-> "ok"]

----------------------------------------------------------------------------
(* main(): the script run and the calls it makes *)

\* response_text is not assigned.
NoText == << "<none>" >>

\* main's api_token: the environment's token, else the sidebar field.
api_token == IF envToken # "" THEN envToken ELSE tokenInput

\* topic.strip() is truthy
TopicGiven(t) == Strip(t) # << >>

\* Line 637: the Generate button is enabled.
generate_enabled == TopicGiven(topic) /\ api_token # ""

\* Lines 558-574: the sidebar stores a non-empty token in the session.
SidebarToken(tok) == IF tok # "" THEN tok ELSE ss_api_token

\* Lines 620-629: the detected type shown under the inputs.
ShownType(t) == IF TopicGiven(t) THEN detect_article_type(t) ELSE "none"

\* The token of the request's last remote call if the service refused it as
\* unauthorized, "" otherwise.
RefusedToken(lg) ==
    IF lg # << >> /\ lg[Len(lg)].op = "text_generation"
                  /\ lg[Len(lg)].outcome = "auth"
    THEN lg[Len(lg)].token
    ELSE ""

\* main without its except branch's fallback: the error is shown and no
\* outline is stored.
Finish_no_fallback(cl, t, k, res, g, lg, ms) ==
    /\ pc' = "idle"
    /\ caller' = cl
    /\ model_idx' = 0
    /\ all_404' = TRUE
    /\ attempt' = 0
    /\ log' = lg
    /\ ret_outline' = res.value
    /\ ret_exc' = res.raised
    /\ generator' = g
    /\ auth_failed' = IF cl = "main" THEN RefusedToken(lg) ELSE auth_failed
    /\ ret_text' = IF cl # "main" THEN ret_text
                   ELSE IF res.raised = "" THEN Render(res.value)
                   ELSE Render(ss_outline)
    /\ IF cl = "main" /\ res.raised = ""
       THEN /\ ss_outline' = res.value
            /\ msgs' = ms \cup { "success: Outline generated successfully!" }
       ELSE /\ ss_outline' = ss_outline
            /\ msgs' = IF cl = "main"
                       THEN ms \cup { "error: Error: " \o res.raised }
                       ELSE ms

\* Lines 648-659 and the return of a direct call: generate_outline has
\* returned or raised res on generator object g.
Finish(cl, t, k, res, g, lg, ms) ==
    /\ pc' = "idle"
    /\ caller' = cl
    /\ model_idx' = 0
    /\ all_404' = TRUE
    /\ attempt' = 0
    /\ log' = lg
    /\ ret_outline' = res.value
    /\ ret_exc' = res.raised
    /\ auth_failed' = IF cl = "main" THEN RefusedToken(lg) ELSE auth_failed
    /\ ret_text' = IF cl # "main" THEN ret_text
                   ELSE IF res.raised = "" THEN Render(res.value)
                   ELSE Render(_generate_template_based(t, k))
    /\ IF cl = "main"
       THEN IF res.raised = ""
            THEN /\ generator' = g
                 /\ ss_outline' = res.value
                 /\ msgs' = ms \cup { "success: Outline generated successfully!" }
            ELSE /\ generator' = NewGenerator(api_token)
                 /\ ss_outline' = _generate_template_based(t, k)
                 /\ msgs' = ms \cup { "error: Error: " \o res.raised,
                                      "info: Using template-based generation instead",
                                      "success: Outline generated using template!" }
       ELSE /\ generator' = g
            /\ ss_outline' = ss_outline
            /\ msgs' = ms

\* initialize_client never raising for a missing token.
TokenMissing_never(g) == FALSE

\* Line 35: not self.api_token
TokenMissing(g) == g.api_token = ""

\* Lines 185-190: generate_outline once the client is initialised.
AfterInit(cl, t, k, g, lg, ms) ==
    IF ~g.working_model_found
    THEN /\ Finish(cl, t, k, Returned(_generate_template_based(t, k)), g, lg,
                   ms \cup { "info: Using template-based generation (AI models unavailable)" })
         /\ response_text' = NoText
    ELSE /\ pc' = "generate"
         /\ caller' = cl
         /\ generator' = g
         /\ attempt' = 0
         /\ log' = lg
         /\ msgs' = ms
         /\ response_text' = NoText
         /\ UNCHANGED << ss_outline, model_idx, all_404, ret_outline, ret_exc, ret_text, auth_failed >>

\* generate_outline initialising the client again whenever no working model
\* is known.
EnterGenerate_reprobe(cl, t, k, g, ms) ==
    /\ arg_topic' = t
    /\ arg_keyword' = k
    /\ IF g.client = "" \/ ~g.working_model_found
       THEN IF TokenMissing(g)
            THEN /\ Finish(cl, t, k, Raised("ValueError"), g, << >>, ms)
                 /\ response_text' = NoText
            ELSE LET g2 == [g EXCEPT !.client = g.api_token] IN
                 IF g2.working_model_found
                 THEN AfterInit(cl, t, k, g2, << >>, ms)
                 ELSE /\ pc' = "probe"
                      /\ caller' = cl
                      /\ generator' = g2
                      /\ model_idx' = 1
                      /\ all_404' = TRUE
                      /\ log' = << >>
                      /\ msgs' = ms \cup { "info: Testing models to find available one" }
                      /\ response_text' = NoText
                      /\ UNCHANGED << ss_outline, attempt, ret_outline, ret_exc, ret_text, auth_failed >>
       ELSE AfterInit(cl, t, k, g, << >>, ms)

\* Lines 180-190 with initialize_client and the head of _find_working_model:
\* generate_outline(t, k) is called on generator object g.
EnterGenerate(cl, t, k, g, ms) ==
    /\ arg_topic' = t
    /\ arg_keyword' = k
    /\ IF g.client = ""
       THEN IF TokenMissing(g)
            THEN /\ Finish(cl, t, k, Raised("ValueError"), g, << >>, ms)
                 /\ response_text' = NoText
            ELSE LET g2 == [g EXCEPT !.client = g.api_token] IN
                 IF g2.working_model_found
                 THEN AfterInit(cl, t, k, g2, << >>, ms)
                 ELSE /\ pc' = "probe"
                      /\ caller' = cl
                      /\ generator' = g2
                      /\ model_idx' = 1
                      /\ all_404' = TRUE
                      /\ log' = << >>
                      /\ msgs' = ms \cup { "info: Testing models to find available one" }
                      /\ response_text' = NoText
                      /\ UNCHANGED << ss_outline, attempt, ret_outline, ret_exc, ret_text, auth_failed >>
       ELSE AfterInit(cl, t, k, g, << >>, ms)

\* A widget other than the button changes: the script runs top to bottom
\* with generate_button False.
Rerun ==
    /\ UNCHANGED << envToken, generator, ss_outline, pc, model_idx, all_404,
                    attempt, prev_tag >>
    /\ ss_api_token' = SidebarToken(api_token')
    /\ ret_tag' = ShownType(topic')
    /\ msgs' = { }
    /\ log' = << >>
    /\ caller' = "none"
    /\ arg_topic' = << >>
    /\ arg_keyword' = << >>
    /\ response_text' = NoText
    /\ ret_outline' = NoOutline
    /\ ret_exc' = ""
    /\ ret_text' = Render(ss_outline)
    /\ UNCHANGED auth_failed

\* The user types a token into the sidebar field (shown when the environment
\* has none).
EditToken ==
    /\ UNCHANGED seen
    /\ pc = "idle"
    /\ envToken = ""
    /\ \E tok \in UserTokens \cup { "" } :
        /\ tok # tokenInput
        /\ tokenInput' = tok
    /\ UNCHANGED << topic, keyword >>
    /\ Rerun

\* The user types a topic.
EditTopic ==
    /\ UNCHANGED seen
    /\ pc = "idle"
    /\ \E t \in AppTopics :
        /\ t # topic
        /\ topic' = t
    /\ UNCHANGED << tokenInput, keyword >>
    /\ Rerun

\* The user types a keyword.
EditKeyword ==
    /\ UNCHANGED seen
    /\ pc = "idle"
    /\ \E k \in Keywords :
        /\ k # keyword
        /\ keyword' = k
    /\ UNCHANGED << tokenInput, topic >>
    /\ Rerun

\* Lines 631-647: the user presses Generate; the script runs up to the first
\* remote call of generate_outline, or to its end.
PressGenerate ==
    /\ UNCHANGED seen
    /\ pc = "idle"
    /\ generate_enabled
    /\ UNCHANGED << envToken, tokenInput, topic, keyword, prev_tag >>
    /\ ss_api_token' = api_token
    /\ ret_tag' = ShownType(topic)
    /\ LET stored == SidebarToken(api_token)
           g == IF ~generator.exists \/ stored # api_token
                THEN NewGenerator(api_token)
                ELSE generator
       IN  EnterGenerate("main", topic, keyword, g, { })


----------------------------------------------------------------------------
(* The remote calls of _find_working_model and generate_outline *)

\* Lines 92-106 and 185-188: the loop over MODELS ended without a model.
ProbeExhausted(g, lg, ms, all404) ==
    /\ Finish(caller, arg_topic, arg_keyword,
              Returned(_generate_template_based(arg_topic, arg_keyword)),
              [g EXCEPT !.model_name = MODELS[1]], lg,
              ms \cup { IF all404
                        THEN "warning: All models returned 404 Not Found"
                        ELSE "warning: Could not connect to any model. Using template fallback.",
                        "info: Using template-based generation (AI models unavailable)" })

\* Lines 57-90: one pass of the loop of _find_working_model, the remote
\* call answering or failing with error message e.
ProbeStep ==
    /\ UNCHANGED seen
    /\ pc = "probe"
    /\ UNCHANGED << envToken, tokenInput, topic, keyword, ss_api_token,
                    arg_topic, arg_keyword, response_text, ret_tag,
                    prev_tag >>
    /\ LET Called(outcome) ==
               Append(log, RemoteCall("probe", MODELS[model_idx],
                                      generator.client, outcome))
       IN
       \/ \* the call returns: lines 69-72, then 185-190
          AfterInit(caller, arg_topic, arg_keyword,
                    [generator EXCEPT !.model_name = MODELS[model_idx],
                                      !.working_model_found = TRUE],
                    Called("ok"),
                    msgs \cup { "success: Successfully connected to model" })
       \/ \E e \in ErrorMsgs :
            LET ms == msgs \cup { "warning: model failed" }
                lg == Called(ErrorKind(e))
            IN
            IF "404" \in e \/ "not found" \in e
            THEN IF model_idx < Len(MODELS)
                 THEN /\ model_idx' = model_idx + 1
                      /\ log' = lg
                      /\ msgs' = ms
                      /\ UNCHANGED << generator, ss_outline, pc, caller, all_404,
                                      attempt, ret_outline, ret_exc, ret_text, auth_failed >>
                 ELSE ProbeExhausted(generator, lg, ms, all_404)
            ELSE IF "401" \in e \/ "unauthorized" \in e \/ "invalid token" \in e
            THEN Finish(caller, arg_topic, arg_keyword, Raised("ValueError"),
                        generator, lg,
                        ms \cup { "error: Authentication failed. Your token may be invalid or expired.",
                                  "info: Create a NEW token",
                                  "error: Failed to initialize client" })
            ELSE IF model_idx < Len(MODELS)
                 THEN /\ model_idx' = model_idx + 1
                      /\ all_404' = FALSE
                      /\ log' = lg
                      /\ msgs' = ms
                      /\ UNCHANGED << generator, ss_outline, pc, caller, attempt,
                                      ret_outline, ret_exc, ret_text, auth_failed >>
                 ELSE ProbeExhausted(generator, lg, ms, FALSE)

\* The except branch without its test for a rejected token.
GenerateError_no_auth_branch(e) ==
    IF "rate limit" \in e \/ "429" \in e
    THEN IF attempt < max_retries - 1
         THEN [retry |-> TRUE, shown |-> { "warning: Rate limit hit, retrying in 5 seconds" }]
         ELSE [retry |-> FALSE, shown |-> { "error: Rate limit reached. Using template fallback." }]
    ELSE IF "404" \in e \/ "not found" \in e
    THEN [retry |-> FALSE, shown |-> { "error: Model temporarily unavailable. Using template fallback." }]
    ELSE [retry |-> FALSE, shown |-> { "warning: <the error's text>" }]

\* The except branch retrying after any error, not only a rate limit.
GenerateError_retry_any(e) ==
    IF attempt < max_retries - 1
    THEN [retry |-> TRUE, shown |-> { "warning: Rate limit hit, retrying in 5 seconds" }]
    ELSE [retry |-> FALSE, shown |-> { "error: Rate limit reached. Using template fallback." }]

\* Lines 206-224: the except branch for error message e on this attempt:
\* the messages shown, and whether the loop continues.
GenerateError(e) ==
    IF "rate limit" \in e \/ "429" \in e
    THEN IF attempt < max_retries - 1
         THEN [retry |-> TRUE, shown |-> { "warning: Rate limit hit, retrying in 5 seconds" }]
         ELSE [retry |-> FALSE, shown |-> { "error: Rate limit reached. Using template fallback." }]
    ELSE IF "token" \in e \/ "401" \in e \/ "unauthorized" \in e
    THEN [retry |-> FALSE,
          shown |-> { "error: Invalid or expired token. Please check your Hugging Face token.",
                      "info: Get a new token" }]
    ELSE IF "404" \in e \/ "not found" \in e
    THEN [retry |-> FALSE, shown |-> { "error: Model temporarily unavailable. Using template fallback." }]
    ELSE [retry |-> FALSE, shown |-> { "warning: <the error's text>" }]

\* _parse_response took the _create_structured_outline_from_text path.
UsesStructured(text) ==
    LET json_str == JsonMatch(text)
        outline == JsonLoads(json_str)
    IN  \/ json_str = << >>
        \/ outline.t = "none"
        \/ _validate_outline(outline) = "False"

\* Lines 193-224: one attempt of generate_outline's loop, the remote call
\* answering with a text or failing with error message e.
GenerateStep ==
    /\ UNCHANGED seen
    /\ pc = "generate"
    /\ UNCHANGED << envToken, tokenInput, topic, keyword, ss_api_token,
                    arg_topic, arg_keyword, ret_tag, prev_tag >>
    /\ LET Called(outcome) ==
               Append(log, RemoteCall("generate", generator.model_name,
                                      generator.client, outcome))
           fallback == Returned(_generate_template_based(arg_topic, arg_keyword))
       IN
       \/ \E text \in ResponseTexts :
            LET res == _parse_response(text, arg_topic, arg_keyword)
                lg == Called("ok")
                ms == IF UsesStructured(text)
                      THEN msgs \cup { "warning: AI response wasn't in perfect format" }
                      ELSE msgs
            IN  /\ response_text' = text
                /\ IF res.raised = ""
                   THEN Finish(caller, arg_topic, arg_keyword, res, generator,
                               lg, ms)
                   ELSE Finish(caller, arg_topic, arg_keyword, fallback,
                               generator, lg,
                               ms \cup GenerateError(TypeErrorMsg).shown)
       \/ \E e \in ErrorMsgs :
            LET h == GenerateError(e)
                lg == Called(ErrorKind(e))
            IN
            /\ response_text' = response_text
            /\ IF h.retry
               THEN /\ pc' = "sleep"
                    /\ log' = lg
                    /\ msgs' = msgs \cup h.shown
                    /\ UNCHANGED << generator, ss_outline, caller, model_idx,
                                    all_404, attempt, ret_outline, ret_exc, ret_text, auth_failed >>
               ELSE Finish(caller, arg_topic, arg_keyword, fallback, generator,
                           lg, msgs \cup h.shown)

\* The retry without the call of time.sleep.
SleepStep_no_wait ==
    /\ UNCHANGED seen
    /\ pc = "sleep"
    /\ UNCHANGED << envToken, tokenInput, topic, keyword, ss_api_token,
                    arg_topic, arg_keyword, response_text, ret_tag,
                    prev_tag, generator, ss_outline, caller, model_idx,
                    all_404, msgs, ret_outline, ret_exc, log, ret_text, auth_failed >>
    /\ pc' = "generate"
    /\ attempt' = attempt + 1

\* Lines 211-212 and 226-227: time.sleep(5) returns; the loop takes its next
\* attempt, or ends.
SleepStep ==
    /\ UNCHANGED seen
    /\ pc = "sleep"
    /\ UNCHANGED << envToken, tokenInput, topic, keyword, ss_api_token,
                    arg_topic, arg_keyword, response_text, ret_tag,
                    prev_tag >>
    /\ LET lg == Append(log, SleepCall) IN
       IF attempt + 1 < max_retries
       THEN /\ pc' = "generate"
            /\ attempt' = attempt + 1
            /\ log' = lg
            /\ UNCHANGED << generator, ss_outline, caller, model_idx, all_404,
                            msgs, ret_outline, ret_exc, ret_text, auth_failed >>
       ELSE Finish(caller, arg_topic, arg_keyword,
                   Returned(_generate_template_based(arg_topic, arg_keyword)),
                   generator, lg, msgs)

----------------------------------------------------------------------------
(* The application *)

Init ==
    /\ envToken \in EnvTokens \cup { "" }
    /\ tokenInput = ""
    /\ topic = << >>
    /\ keyword = << >>
    /\ ss_api_token = IF envToken # "" THEN envToken ELSE Absent
    /\ generator = NoGenerator
    /\ ss_outline = NoOutline
    /\ pc = "idle"
    /\ caller = "none"
    /\ arg_topic = << >>
    /\ arg_keyword = << >>
    /\ model_idx = 0
    /\ all_404 = TRUE
    /\ attempt = 0
    /\ response_text = NoText
    /\ log = << >>
    /\ msgs = { }
    /\ ret_outline = NoOutline
    /\ ret_exc = ""
    /\ ret_tag = "none"
    /\ prev_tag = "none"
    /\ ret_text = NotRendered
    /\ seen = << >>
    /\ auth_failed = ""

Next ==
    \/ EditToken
    \/ EditTopic
    \/ EditKeyword
    \/ PressGenerate
    \/ ProbeStep
    \/ GenerateStep
    \/ SleepStep

Spec == Init /\ [][Next]_vars


----------------------------------------------------------------------------
(* Direct calls of generate_outline on a generator object *)

\* The topics of the direct calls.
ApiTopics == { << "how", " ", "to", " ", "bake" >> }

\* generate_outline(t, k) is called on the object, up to its first remote
\* call or to its end.
ApiGenerate ==
    /\ UNCHANGED seen
    /\ pc = "idle"
    /\ generator.exists
    /\ UNCHANGED << envToken, tokenInput, topic, keyword, ss_api_token,
                    ret_tag, prev_tag >>
    /\ \E t \in ApiTopics : \E k \in Keywords :
        EnterGenerate("api", t, k, generator, { })

\* The form's fields are as the user left them; the object was constructed
\* with a token, or with none.
InitApi ==
    /\ envToken \in EnvTokens \cup { "" }
    /\ tokenInput \in { "hf_A", "" }
    /\ topic \in { << >>, << "my", " ", "garden" >> }
    /\ keyword = << >>
    /\ ss_api_token = IF api_token # "" THEN api_token ELSE Absent
    /\ \E tok \in { "hf_B", "" } : generator = NewGenerator(tok)
    /\ ss_outline = NoOutline
    /\ pc = "idle"
    /\ caller = "none"
    /\ arg_topic = << >>
    /\ arg_keyword = << >>
    /\ model_idx = 0
    /\ all_404 = TRUE
    /\ attempt = 0
    /\ response_text = NoText
    /\ log = << >>
    /\ msgs = { }
    /\ ret_outline = NoOutline
    /\ ret_exc = ""
    /\ ret_tag = "none"
    /\ prev_tag = "none"
    /\ ret_text = NotRendered
    /\ seen = << >>
    /\ auth_failed = ""

NextApi ==
    \/ ApiGenerate
    \/ ProbeStep
    \/ GenerateStep
    \/ SleepStep

SpecApi == InitApi /\ [][NextApi]_vars

----------------------------------------------------------------------------
(* Calls of the pure methods *)

RECURSIVE AltSeqs(_, _)
\* The strings of n atoms in which words and separators alternate.
AltSeqs(n, wordFirst) ==
    IF n = 0 THEN { << >> }
    ELSE { << a >> \o s :
             a \in (IF wordFirst THEN VocabWords ELSE Seps),
             s \in AltSeqs(n - 1, ~wordFirst) }

\* The examples of the specification's section 8.
ExampleTopics ==
    { << "how", " ", "to", " ", "bake", " ", "bread" >>,
      << "10", " ", "best", " ", "laptops" >>,
      << "what", " ", "is", " ", "entropy" >>,
      << "my", " ", "garden" >> }

\* Every topic of at most MaxTopicLen atoms, and the examples.
AllTopics ==
    UNION { AltSeqs(n, TRUE) \cup AltSeqs(n, FALSE) : n \in 0..MaxTopicLen }
        \cup ExampleTopics

\* detect_article_type(topic) is called.
CallDetect ==
    /\ UNCHANGED seen
    /\ pc = "pure"
    /\ prev_tag' = ret_tag
    /\ ret_tag' = detect_article_type(topic)
    /\ UNCHANGED << envToken, tokenInput, topic, keyword, ss_api_token,
                    generator, ss_outline, pc, caller, arg_topic, arg_keyword,
                    model_idx, all_404, attempt, response_text, log, msgs,
                    ret_outline, ret_exc, ret_text, auth_failed >>

\* _generate_template_based(topic, k) is called.
CallTemplate ==
    /\ UNCHANGED seen
    /\ pc = "pure"
    /\ \E k \in Keywords :
        /\ keyword' = k
        /\ ret_outline' = _generate_template_based(topic, k)
    /\ UNCHANGED << envToken, tokenInput, topic, ss_api_token, generator,
                    ss_outline, pc, caller, arg_topic, arg_keyword, model_idx,
                    all_404, attempt, response_text, log, msgs, ret_exc,
                    ret_tag, prev_tag, ret_text, auth_failed >>

InitPure ==
    /\ envToken = ""
    /\ tokenInput = ""
    /\ topic \in AllTopics
    /\ keyword = << >>
    /\ ss_api_token = Absent
    /\ generator = NewGenerator("")
    /\ ss_outline = NoOutline
    /\ pc = "pure"
    /\ caller = "none"
    /\ arg_topic = << >>
    /\ arg_keyword = << >>
    /\ model_idx = 0
    /\ all_404 = TRUE
    /\ attempt = 0
    /\ response_text = NoText
    /\ log = << >>
    /\ msgs = { }
    /\ ret_outline = NoOutline
    /\ ret_exc = ""
    /\ ret_tag = "none"
    /\ prev_tag = "none"
    /\ ret_text = NotRendered
    /\ seen = << >>
    /\ auth_failed = ""

NextPure ==
    \/ CallDetect
    \/ CallTemplate

SpecPure == InitPure /\ [][NextPure]_vars

----------------------------------------------------------------------------
(* Calls of format_outline_text on outlines (SpecFormat) *)

RECURSIVE CtaSeqs(_)
\* The lists of at most n CTA dicts: 'after' is a section's index or past
\* the last one, 'text' one of two texts.
CtaSeqs(n) ==
    IF n = 0 THEN { << >> }
    ELSE CtaSeqs(n - 1) \cup
         { Append(cs, Cta(a, << x >>)) :
             cs \in { c \in CtaSeqs(n - 1) : Len(c) = n - 1 },
             a \in { 0, 1, 3 }, x \in { "Text A", "Text B" } }

\* Outlines of three sections, two of two bullets and one of three, with
\* every such list of CTAs.
FormatOutlines ==
    { PyDict([h1 |-> Lit("A heading"),
              sections |-> PyList(<< ShortSection("First heading"),
                                     ExampleSection("Second heading"),
                                     ShortSection("Third heading") >>),
              ctas |-> PyList(cs)]) : cs \in CtaSeqs(MaxCtas) }

\* format_outline_text(ret_outline) is called.
CallFormat ==
    /\ pc = "format"
    /\ ret_outline # NoOutline
    /\ ret_text' = format_outline_text(ret_outline)
    /\ UNCHANGED << envToken, tokenInput, topic, keyword, ss_api_token,
                    generator, ss_outline, pc, caller, arg_topic, arg_keyword,
                    model_idx, all_404, attempt, response_text, log, msgs,
                    ret_outline, ret_exc, ret_tag, prev_tag, seen,
                    auth_failed >>

\* A generator object without a token, and the outline at hand.
InitObject(outline) ==
    /\ envToken = ""
    /\ tokenInput = ""
    /\ topic = << >>
    /\ keyword = << >>
    /\ ss_api_token = Absent
    /\ generator = NewGenerator("")
    /\ ss_outline = NoOutline
    /\ pc = "format"
    /\ caller = "none"
    /\ arg_topic = << >>
    /\ arg_keyword = << >>
    /\ model_idx = 0
    /\ all_404 = TRUE
    /\ attempt = 0
    /\ response_text = NoText
    /\ log = << >>
    /\ msgs = { }
    /\ ret_outline = outline
    /\ ret_exc = ""
    /\ ret_tag = "none"
    /\ prev_tag = "none"
    /\ ret_text = NotRendered
    /\ seen = << >>
    /\ auth_failed = ""

InitFormat == \E o \in FormatOutlines : InitObject(o)

NextFormat == CallFormat

SpecFormat == InitFormat /\ [][NextFormat]_vars

----------------------------------------------------------------------------
(* Template generations on one generator object (SpecTemplate) *)

\* One topic of each article type.
TemplateTopics ==
    { << "how", " ", "to", " ", "bake" >>, << "10", " ", "best", " ", "laptops" >>,
      << "my", " ", "garden" >> }

\* format_outline_text(_generate_template_based(t, k)) is called on the
\* object; the arguments stay behind as the last ones given.
CallTemplateFormat ==
    /\ pc = "format"
    /\ Len(seen) < MaxCalls
    /\ \E t \in TemplateTopics : \E k \in Keywords :
        LET outline == _generate_template_based(t, k)
            text == format_outline_text(outline)
        IN  /\ topic' = t
            /\ keyword' = k
            /\ ret_outline' = outline
            /\ ret_text' = text
            /\ seen' = Append(seen, [topic |-> t, keyword |-> k, text |-> text])
    /\ UNCHANGED << envToken, tokenInput, ss_api_token, generator, ss_outline,
                    pc, caller, arg_topic, arg_keyword, model_idx, all_404,
                    attempt, response_text, log, msgs, ret_exc, ret_tag,
                    prev_tag, auth_failed >>

InitTemplate == InitObject(NoOutline)

NextTemplate == CallTemplateFormat

SpecTemplate == InitTemplate /\ [][NextTemplate]_vars

----------------------------------------------------------------------------
(* Properties: what the properties below speak of *)

\* The remote calls of a log, and those made for one purpose.
RemoteCalls(lg) == SelectSeq(lg, LAMBDA c : c.op = "text_generation")
CallsFor(lg, purpose) ==
    SelectSeq(lg, LAMBDA c : c.op = "text_generation" /\ c.purpose = purpose)

\* A generation request of the form has run to its end.
RequestDone == pc = "idle" /\ caller = "main"

\* A call of generate_outline has ended, by a return or by an exception.
CallEnded == pc = "idle" /\ caller # "none"

\* The last remote call of the ended call answered with a text.
Answered == CallEnded /\ response_text # NoText

\* The shape an outline must have: the keys h1, sections and ctas, at least
\* three sections, each with an h2 and at least two bullets.
WellFormed(o) ==
    /\ o.t = "dict"
    /\ { "h1", "sections", "ctas" } \subseteq DOMAIN o.v
    /\ o.v.sections.t = "list"
    /\ Len(o.v.sections.v) >= 3
    /\ \A i \in 1..Len(o.v.sections.v) :
        LET sec == o.v.sections.v[i] IN
        /\ sec.t = "dict"
        /\ { "h2", "bullets" } \subseteq DOMAIN sec.v
        /\ sec.v.bullets.t = "list"
        /\ Len(sec.v.bullets.v) >= 2

\* The text decodes to no object, or to one that fails validation.
Rejected(text) ==
    LET json_str == JsonMatch(text) IN
    \/ json_str = << >>
    \/ JsonLoads(json_str).t = "none"
    \/ _validate_outline(JsonLoads(json_str)) # "True"

\* The text is one document of a valid outline, with or without prose that
\* has no brace around it.
HoldsValidObject(text) ==
    \E i \in 1..Len(text) :
        /\ text[i] \in DocAtoms
        /\ WellFormed(Doc(text[i]))
        /\ \A j \in 1..Len(text) :
              j # i => ~HasOpenBrace(text[j]) /\ ~HasCloseBrace(text[j])

\* The document of such a text.
ObjectOf(text) ==
    Doc(text[CHOOSE i \in 1..Len(text) : text[i] \in DocAtoms])

\* Every section heading of outline o is a marker line of the text, stripped.
HeadingsFromLines(o, text) ==
    LET lines == StrippedLines(text) IN
    \A i \in 1..Len(o.v.sections.v) :
        \E n \in 1..Len(lines) :
            /\ ContainsMarker(lines[n])
            /\ o.v.sections.v[i].v.h2 = PyStr(StripChars(lines[n], HeadingStrip))

\* The messages that tell of a rejected credential, and those that tell of
\* a fallback for another reason.
CredentialMsgs ==
    { "error: Authentication failed. Your token may be invalid or expired.",
      "error: Invalid or expired token. Please check your Hugging Face token." }
FallbackMsgs ==
    { "error: Rate limit reached. Using template fallback.",
      "error: Model temporarily unavailable. Using template fallback.",
      "warning: <the error's text>",
      "warning: All models returned 404 Not Found",
      "warning: Could not connect to any model. Using template fallback." }

\* Whole-word occurrences in a topic, whatever the case.
HasWord(t, w) == \E i \in 1..Len(t) : LowerAtom(t[i]) = w
HasPair(t, a, b) ==
    \E i \in 1..(Len(t) - 2) :
        LowerAtom(t[i]) = a /\ t[i + 1] = " " /\ LowerAtom(t[i + 2]) = b
HowToCue(t) ==
    \/ HasPair(t, "how", "to")
    \/ HasWord(t, "guide")
    \/ HasWord(t, "tutorial")
    \/ \E i \in 1..(Len(t) - 4) :
          /\ LowerAtom(t[i]) = "step" /\ t[i + 1] = " "
          /\ LowerAtom(t[i + 2]) = "by" /\ t[i + 3] = " "
          /\ LowerAtom(t[i + 4]) = "step"
ListicleCue(t) ==
    \E w \in { "best", "top", "vs", "versus", "comparison" } : HasWord(t, w)
ExplanatoryCue(t) ==
    \/ HasPair(t, "what", "is")
    \/ HasPair(t, "introduction", "to")
    \/ HasWord(t, "understanding")
    \/ HasWord(t, "explain")

\* The texts of the CTA lines of a formatted text, in order.
CtaTexts(text) ==
    LET ls == SelectSeq(text, LAMBDA l : l.line = "cta") IN
    [m \in 1..Len(ls) |-> ls[m].v]

\* The CTAs of an outline; the indices of its sections that some CTA names;
\* the first CTA in list order that names index i.
CtasOf(o) == o.v.ctas.v
NamedSections(o) ==
    { i \in 0..(Len(o.v.sections.v) - 1) :
        \E j \in 1..Len(CtasOf(o)) : CtasOf(o)[j].v.after.v = i }
FirstCtaFor(o, i) ==
    CtasOf(o)[CHOOSE j \in 1..Len(CtasOf(o)) :
                /\ CtasOf(o)[j].v.after.v = i
                /\ \A q \in 1..(j - 1) : CtasOf(o)[q].v.after.v # i]

\* The index that is the m-th smallest of a set of indices.
NthOf(S, m) == CHOOSE i \in S : Cardinality({ x \in S : x < i }) = m - 1

RECURSIVE SectionStart(_, _)
\* Where the section at position i begins in the formatted text of o: after
\* the heading and its blank line, and for each earlier section its
\* subheading, a blank line, its bullets, a blank line, and two more lines
\* when it has a CTA.
SectionStart(o, i) ==
    IF i = 1 THEN 3
    ELSE SectionStart(o, i - 1) + 3
           + Len(o.v.sections.v[i - 1].v.bullets.v)
           + (IF (i - 2) \in NamedSections(o) THEN 2 ELSE 0)

----------------------------------------------------------------------------
(* Properties of the application (Spec) *)

\* C1: every generation request ends with an outline stored that has the
\* keys h1, sections and ctas, at least three sections and at least two
\* bullets in each, whatever the remote calls did; a request makes at most
\* four probe calls, two generation calls and one wait, so it does end.
C1_RequestYieldsValidOutline ==
    /\ Len(log) <= Len(MODELS) + max_retries + 1
    /\ RequestDone =>
        /\ ss_outline # NoOutline
        /\ WellFormed(ss_outline)
        /\ _validate_outline(ss_outline) = "True"

\* A request ended after a remote call failed, and after one that answered
\* with a text that holds no valid object.
C1_Witness ==
    /\ RequestDone
    /\ \E i \in 1..Len(log) : log[i].outcome \in { "rate_limit", "not_found", "other" }
    /\ Answered
    /\ Rejected(response_text)
    /\ WellFormed(ss_outline)

C4_AtMostTwoAttempts == Len(CallsFor(log, "generate")) <= 2

\* A call made two generation calls and both failed.
C4_Witness ==
    /\ CallEnded
    /\ Len(CallsFor(log, "generate")) = 2
    /\ \A i \in 1..2 : CallsFor(log, "generate")[i].outcome = "rate_limit"

\* C5: when the first generation call fails with a rate limit and the second
\* answers with a text holding a valid outline object, the call returns that
\* object and not the template; and a second generation call is made only
\* after the wait.
C5_RetryReturnsParsedOutline ==
    /\ \A i \in 2..Len(log) :
          (log[i].purpose = "generate" /\
           \E j \in 1..(i - 1) : log[j].purpose = "generate")
              => log[i - 1].op = "sleep"
    /\ ( /\ CallEnded
         /\ Len(CallsFor(log, "generate")) = 2
         /\ CallsFor(log, "generate")[1].outcome = "rate_limit"
         /\ CallsFor(log, "generate")[2].outcome = "ok"
         /\ HoldsValidObject(response_text) )
       => /\ ret_exc = ""
          /\ ret_outline = ObjectOf(response_text)
          /\ ret_outline # _generate_template_based(arg_topic, arg_keyword)

\* A call whose first generation call hit the rate limit and whose second
\* answered with a valid object inside prose.
C5_Witness ==
    /\ CallEnded
    /\ Len(CallsFor(log, "generate")) = 2
    /\ CallsFor(log, "generate")[1].outcome = "rate_limit"
    /\ CallsFor(log, "generate")[2].outcome = "ok"
    /\ HoldsValidObject(response_text)
    /\ Len(response_text) > 1
    /\ ret_outline = ObjectOf(response_text)

\* C6: when a remote call fails with an authentication error, it is the
\* request's last remote call, the request ends with the template outline
\* stored, and a message about the credential is shown that is none of the
\* fallback warnings.
C6_AuthErrorStopsRequest ==
    \A i \in 1..Len(log) :
        (log[i].op = "text_generation" /\ log[i].outcome = "auth") =>
            /\ i = Len(log)
            /\ RequestDone
            /\ ss_outline = _generate_template_based(arg_topic, arg_keyword)
            /\ msgs \cap CredentialMsgs # { }
            /\ msgs \cap FallbackMsgs = { }
            /\ CredentialMsgs \cap FallbackMsgs = { }

\* A request whose generation call failed with an authentication error
\* after a probe call had answered.
C6_Witness ==
    /\ RequestDone
    /\ Len(log) >= 2
    /\ log[Len(log)].purpose = "generate"
    /\ log[Len(log)].outcome = "auth"
    /\ ss_outline = _generate_template_based(arg_topic, arg_keyword)

\* C7: when a generation call fails with not-found, or with an error that is
\* neither a rate limit nor an authentication error, no generation call
\* follows it and the call returns the template outline; a second generation
\* call is made only when the first failed with a rate limit.
C7_OtherErrorsNoRetry ==
    LET G == CallsFor(log, "generate") IN
    /\ \A i \in 1..Len(G) :
          G[i].outcome \in { "not_found", "other" } =>
              /\ i = Len(G)
              /\ CallEnded
              /\ ret_exc = ""
              /\ ret_outline = _generate_template_based(arg_topic, arg_keyword)
    /\ Len(G) >= 2 => G[1].outcome = "rate_limit"

\* A call whose only generation call failed with not-found.
C7_Witness ==
    /\ CallEnded
    /\ Len(CallsFor(log, "generate")) = 1
    /\ CallsFor(log, "generate")[1].outcome = "not_found"
    /\ ret_outline = _generate_template_based(arg_topic, arg_keyword)

\* The text is prose, then one document of a valid outline, then prose.
ProseObjectProse(text) ==
    \E i \in 2..(Len(text) - 1) :
        /\ text[i] \in DocAtoms
        /\ WellFormed(Doc(text[i]))
        /\ \A j \in 1..Len(text) : j # i => text[j] \notin DocAtoms

\* C13 as stated: when the response is prose, one well-formed JSON object
\* that passes validation, and more prose, the call returns exactly the
\* decoded object.
C13_ProseAroundObjectIsDiscarded ==
    (Answered /\ ProseObjectProse(response_text)) =>
        /\ ret_exc = ""
        /\ ret_outline = ObjectOf(response_text)

\* C16 as stated: every stored outline that _validate_outline accepts is
\* rendered by the script's run without an exception.
C16_AcceptedOutlineRenders ==
    (pc = "idle" /\ ss_outline # NoOutline
                 /\ _validate_outline(ss_outline) = "True")
        => ret_text.raised = ""

\* C15 as stated: after a request of the form failed with an authentication
\* error, once the user has entered a different token, every remote call of
\* the very next request goes out with the token entered, not with the
\* token of the generator object kept in the session.
C15_NextRequestUsesCorrectedToken ==
    [][ ( /\ auth_failed # ""
          /\ api_token # auth_failed
          /\ caller' = "main"
          /\ Len(log') = Len(log) + 1
          /\ log'[Len(log')].op = "text_generation" )
        => log'[Len(log')].token = api_token ]_vars

----------------------------------------------------------------------------
(* Properties of direct calls of generate_outline (SpecApi) *)

\* C8 as stated: when no token is configured, a call of generate_outline
\* makes no remote call and returns the template outline; and the form's
\* control is enabled only when the topic is non-empty after trimming and a
\* token is present.
C8_NoTokenGivesTemplate ==
    /\ (CallEnded /\ generator.api_token = "") =>
          /\ RemoteCalls(log) = << >>
          /\ ret_exc = ""
          /\ ret_outline = _generate_template_based(arg_topic, arg_keyword)
    /\ generate_enabled <=> (Strip(topic) # << >> /\ api_token # "")

\* C8, amended: when no token is configured, a call of generate_outline
\* makes no remote call and raises ValueError, returning no outline; the
\* form's control is enabled only when the topic is non-empty after trimming
\* and a token is present, so the form never makes such a call.
C8_NoTokenRaises ==
    /\ (CallEnded /\ generator.api_token = "") =>
          /\ RemoteCalls(log) = << >>
          /\ ret_exc = "ValueError"
          /\ ret_outline = NoOutline
    /\ generate_enabled <=> (Strip(topic) # << >> /\ api_token # "")

\* A call on an object without a token has ended, the form's control being
\* disabled.
C8_Witness ==
    /\ CallEnded
    /\ caller = "api"
    /\ generator.api_token = ""
    /\ ret_exc = "ValueError"
    /\ ~generate_enabled

----------------------------------------------------------------------------
(* Properties of the pure methods (SpecPure) *)

\* C3: the template outline built for any topic and keyword, the empty ones
\* included, has the keys h1, sections and ctas, at least three sections and
\* at least two bullets in each, and passes _validate_outline.
C3_TemplateIsValid ==
    ret_outline # NoOutline =>
        /\ WellFormed(ret_outline)
        /\ _validate_outline(ret_outline) = "True"

\* The template was built for a blank topic and no keyword.
C3_Witness ==
    /\ ret_outline # NoOutline
    /\ Strip(topic) = << >>
    /\ keyword = << >>
    /\ WellFormed(ret_outline)

\* C9: detect_article_type returns one of the four tags for every topic,
\* "general" for an empty or blank one, and the same tag when called again
\* with the same topic.
C9_DetectIsTotal ==
    ret_tag # "none" =>
        /\ ret_tag \in Tags
        /\ Strip(topic) = << >> => ret_tag = "general"
        /\ prev_tag # "none" => prev_tag = ret_tag

\* The classifier was called twice on a blank topic.
C9_Witness ==
    /\ topic = << "  " >>
    /\ ret_tag = "general"
    /\ prev_tag = "general"

\* C10: the tag is how_to when the lowered topic has a how-to cue as whole
\* words; else listicle when it has a listicle cue; else explanatory when it
\* has an explanatory cue; else general. The first rule that matches wins.
C10_FirstMatchWins ==
    ret_tag # "none" =>
        /\ HowToCue(topic) => ret_tag = "how_to"
        /\ (~HowToCue(topic) /\ ListicleCue(topic)) => ret_tag = "listicle"
        /\ (~HowToCue(topic) /\ ~ListicleCue(topic) /\ ExplanatoryCue(topic))
              => ret_tag = "explanatory"
        /\ (~HowToCue(topic) /\ ~ListicleCue(topic) /\ ~ExplanatoryCue(topic))
              => ret_tag = "general"
        /\ topic = << "how", " ", "to", " ", "bake", " ", "bread" >>
              => ret_tag = "how_to"
        /\ topic = << "10", " ", "best", " ", "laptops" >>
              => ret_tag = "listicle"
        /\ topic = << "what", " ", "is", " ", "entropy" >>
              => ret_tag = "explanatory"
        /\ topic = << "my", " ", "garden" >> => ret_tag = "general"

\* A topic with a cue of all three rules was tagged how_to.
C10_Witness ==
    /\ ret_tag = "how_to"
    /\ HowToCue(topic)
    /\ ListicleCue(topic)
    /\ ExplanatoryCue(topic)

----------------------------------------------------------------------------
(* Properties of format_outline_text (SpecFormat, SpecTemplate) *)

\* C11: the CTA lines of the formatted text are, for each section index in
\* order, the first CTA in list order whose 'after' is that index, when
\* there is one: a section shows at most one CTA, a later CTA with the same
\* index is not shown, and a CTA whose index is no section's is not shown
\* and raises nothing.
C11_FirstCtaPerSection ==
    (pc = "format" /\ ret_text # NotRendered) =>
        LET shown == CtaTexts(ret_text.value)
            named == NamedSections(ret_outline)
        IN  /\ ret_text.raised = ""
            /\ Len(shown) = Cardinality(named)
            /\ \A m \in 1..Len(shown) :
                  shown[m] = FirstCtaFor(ret_outline, NthOf(named, m)).v.text

\* An outline with two CTAs of one index and different texts, and a CTA of
\* no section's index, was formatted.
C11_Witness ==
    /\ pc = "format"
    /\ ret_text # NotRendered
    /\ ret_text.raised = ""
    /\ \E i, j \in 1..Len(CtasOf(ret_outline)) :
          /\ i < j
          /\ CtasOf(ret_outline)[i].v.after = CtasOf(ret_outline)[j].v.after
          /\ CtasOf(ret_outline)[i].v.text # CtasOf(ret_outline)[j].v.text
          /\ CtasOf(ret_outline)[i].v.after.v = 1
    /\ \E q \in 1..Len(CtasOf(ret_outline)) : CtasOf(ret_outline)[q].v.after.v = 3
    /\ Len(CtaTexts(ret_text.value)) = 1

\* C12: the formatted text is the heading, then for each section in order
\* its subheading, its bullets, then its CTA if it has one; so a CTA with
\* 'after' = 1 stands after the last bullet of the section at index 1 and
\* before the subheading of the section at index 2.
C12_OutputOrder ==
    (pc = "format" /\ ret_text # NotRendered) =>
        LET text == ret_text.value
            secs == ret_outline.v.sections.v
            n == Len(secs)
        IN  /\ ret_text.raised = ""
            /\ Len(text) = SectionStart(ret_outline, n + 1) - 1
            /\ text[1] = Line("h1", ret_outline.v.h1)
            /\ text[2] = BlankLine
            /\ \A i \in 1..n :
                  LET at == SectionStart(ret_outline, i)
                      bs == secs[i].v.bullets.v
                  IN  /\ text[at] = Line("h2", secs[i].v.h2)
                      /\ text[at + 1] = BlankLine
                      /\ \A q \in 1..Len(bs) :
                            text[at + 1 + q] = Line("bullet", bs[q])
                      /\ text[at + 2 + Len(bs)] = BlankLine
                      /\ (i - 1) \in NamedSections(ret_outline) =>
                            /\ text[at + 3 + Len(bs)].line = "cta"
                            /\ \E j \in 1..Len(CtasOf(ret_outline)) :
                                  /\ CtasOf(ret_outline)[j].v.after.v = i - 1
                                  /\ text[at + 3 + Len(bs)].v
                                        = CtasOf(ret_outline)[j].v.text
                            /\ text[at + 4 + Len(bs)] = BlankLine

\* An outline whose only CTA has 'after' = 1 was formatted: the CTA line
\* follows the second section's third bullet and the third section's
\* subheading follows it.
C12_Witness ==
    /\ pc = "format"
    /\ ret_text.raised = ""
    /\ Len(CtasOf(ret_outline)) = 1
    /\ CtasOf(ret_outline)[1].v.after.v = 1
    /\ \E p \in 3..(Len(ret_text.value) - 2) :
          /\ ret_text.value[p].line = "cta"
          /\ ret_text.value[p - 2] = Line("bullet", Lit("Detailed point 3"))
          /\ ret_text.value[p + 2] = Line("h2", Lit("Third heading"))

----------------------------------------------------------------------------
(* Properties of later calls on one generator object (SpecApi) *)

\* C17: once the client of a generator object is initialised and probing
\* has found no working model, a call of generate_outline on that object
\* returns the template outline for its arguments, makes no remote call,
\* neither a probe nor a generation, and leaves the object as it is.
C17_NoRemoteCallAfterFailedProbing ==
    [][ ( /\ pc = "idle"
          /\ generator.client # ""
          /\ ~generator.working_model_found
          /\ caller' = "api"
          /\ arg_topic' \in ApiTopics )
        => /\ pc' = "idle"
           /\ log' = << >>
           /\ ret_exc' = ""
           /\ ret_outline' = _generate_template_based(arg_topic', arg_keyword')
           /\ generator' = generator ]_vars

\* A call has returned the template without a remote call, on an object
\* whose client an earlier call initialised without finding a model.
C17_Witness ==
    /\ CallEnded
    /\ caller = "api"
    /\ generator.client # ""
    /\ ~generator.working_model_found
    /\ log = << >>
    /\ ret_exc = ""
    /\ ret_outline = _generate_template_based(arg_topic, arg_keyword)

====
